---- MODULE Spec2Model ----
(***************************************************************************)
(* Model of backend/csv_diff.py: CSVDiffer.compare and                     *)
(* CSVDiffer.compare_customers with the helpers they call.                 *)
(*                                                                         *)
(* A DataFrame is a record [cols, rows]: the set of its column names and   *)
(* the sequence of its rows, each row a function from cols to a cell.      *)
(* A cell is a string, written as a sequence of one-character strings      *)
(* (<<"a", " ">> is "a "), or the null marker NaN.  An Optional value is   *)
(* None (the empty sequence) or Some(x) (the one-element sequence <<x>>).  *)
(*                                                                         *)
(* Python iterates a set of strings, or of tuples of strings, in an order  *)
(* that depends on the hash seed of the process; the two places where the  *)
(* code iterates such a set (the common columns, the key tuples) take the  *)
(* order as a nondeterministic choice among all permutations.              *)
(***************************************************************************)
EXTENDS Integers, Sequences, FiniteSets, TLC

VARIABLES
    df1,                  \* first input table
    df2,                  \* second input table
    pc,                   \* "ready", "returned" or "raised"
    op,                   \* the method called: "none", "compare", "compare_customers"
    customer_id_arg,      \* compare_customers' argument customer_id_column (None if not given)
    customer_id_column,   \* compare_customers' local customer_id_column after auto-detection
    key_columns,          \* compare's local key_columns
    file1_name,           \* argument file1_name
    file2_name,           \* argument file2_name
    ret,                  \* None, or Some(the DiffResult returned)
    exc,                  \* "" or the name of the exception raised
    response              \* None, or Some(the HTTP response of POST /api/compare)

vars ==
    <<df1, df2, pc, op, customer_id_arg, customer_id_column, key_columns, file1_name,
      file2_name, ret, exc, response>>

----------------------------------------------------------------------------
(* Generic helpers *)

None == <<>>

Some(x) == <<x>>

ToSet(s) == {s[i] : i \in 1..Len(s)}

Max(S) == CHOOSE x \in S : \A y \in S : y <= x

MaxOf(a, b) == IF a >= b THEN a ELSE b

MinOf(a, b) == IF a <= b THEN a ELSE b

\* every order in which the elements of the set S can be iterated
Perms(S) ==
    {f \in [1..Cardinality(S) -> S] : \A i, j \in 1..Cardinality(S) : i # j => f[i] # f[j]}

\* s[:n]
Prefix(s, n) == SubSeq(s, 1, MinOf(n, Len(s)))

----------------------------------------------------------------------------
(* Cells and strings *)

NaN == <<"NaN">>

EmptyStr == <<>>

NanStr == <<"n", "a", "n">>

Whitespace == {" "}

RECURSIVE LStrip(_)
LStrip(s) == IF s # <<>> /\ Head(s) \in Whitespace THEN LStrip(Tail(s)) ELSE s

RECURSIVE RStrip(_)
RStrip(s) ==
    IF s # <<>> /\ s[Len(s)] \in Whitespace THEN RStrip(SubSeq(s, 1, Len(s) - 1)) ELSE s

\* str.strip()
Strip(s) == RStrip(LStrip(s))

\* the names of the columns the model uses, in lexicographic (code point) order
ColumnOrder ==
    <<"age", "customer_id", "id", "merchant-display-name", "merchant-public-id",
      "merchant_id", "name", "user_id", "zip">>

\* sorted(S) for a set S of column names
Sorted(S) == SelectSeq(ColumnOrder, LAMBDA c : c \in S)

----------------------------------------------------------------------------
(* DataFrame *)

DataFrame(cols, rows) == [cols |-> cols, rows |-> rows]

\* len(df)
NumRows(df) == Len(df.rows)

\* df.empty taken as "has no columns"
IsEmptyMut(df) == df.cols = {}

\* df.empty: no rows or no columns
IsEmpty(df) == NumRows(df) = 0 \/ df.cols = {}

\* row.get(col, '')
Get(row, col) == IF col \in DOMAIN row THEN row[col] ELSE EmptyStr

\* {col: row.get(col, '') for col in all_columns}
Project(row, all_columns) == [c \in ToSet(all_columns) |-> Get(row, c)]

\* normalisation without the final replacement of 'nan' by ''
NormalizeCellKeepNan(cell) ==
    LET asStr == IF cell = NaN THEN NanStr ELSE cell
    IN  Strip(asStr)

\* normalisation without the str.strip() step
NormalizeCellMut(cell) ==
    LET asStr == IF cell = NaN THEN NanStr ELSE cell
    IN  IF asStr = NanStr THEN EmptyStr ELSE asStr

\* one cell through astype(str), fillna(''), str.strip() and the final apply
NormalizeCell(cell) ==
    LET asStr == IF cell = NaN THEN NanStr ELSE cell
        stripped == Strip(asStr)
    IN  IF stripped = NanStr THEN EmptyStr ELSE stripped

_normalize_dataframe(df) ==
    DataFrame(df.cols,
              [i \in 1..NumRows(df) |-> [c \in df.cols |-> NormalizeCell(df.rows[i][c])]])

\* set(df[col]) / df[col].unique()
ColumnValues(df, col) == {df.rows[i][col] : i \in 1..NumRows(df)}

----------------------------------------------------------------------------
(* Key selection *)

\* limit of potential_keys[:3]
MaxKeyColumns == 3

\* limit of common_columns[:min(3, len(common_columns))]
MaxFallbackColumns == 3

\* len(df[col].unique()) / len(df) > 0.8
\* the uniqueness test with >= 0.8 in place of > 0.8
HighUniquenessMut(df, col) == 10 * Cardinality(ColumnValues(df, col)) >= 8 * NumRows(df)

HighUniqueness(df, col) == 10 * Cardinality(ColumnValues(df, col)) > 8 * NumRows(df)

\* key selection without the fallback to the first common columns
_find_key_columnsNoFallback(d1, d2, common_columns) ==
    IF common_columns = <<>>
    THEN <<>>
    ELSE Prefix(SelectSeq(common_columns,
                          LAMBDA col : /\ NumRows(d1) > 0
                                       /\ NumRows(d2) > 0
                                       /\ HighUniqueness(d1, col)
                                       /\ HighUniqueness(d2, col)),
                MaxKeyColumns)

\* common_columns is list(set(df1.columns) & set(df2.columns)) in its iteration order
_find_key_columns(d1, d2, common_columns) ==
    IF common_columns = <<>>
    THEN <<>>
    ELSE LET potential_keys ==
                 SelectSeq(common_columns,
                           LAMBDA col : /\ NumRows(d1) > 0
                                        /\ NumRows(d2) > 0
                                        /\ HighUniqueness(d1, col)
                                        /\ HighUniqueness(d2, col))
             chosen ==
                 IF potential_keys = <<>>
                 THEN Prefix(common_columns, MinOf(MaxFallbackColumns, Len(common_columns)))
                 ELSE potential_keys
         IN  Prefix(chosen, MaxKeyColumns)

----------------------------------------------------------------------------
(* Row matching *)

\* tuple(row[col] for col in key_columns)
KeyOf(row, keys) == [i \in 1..Len(keys) |-> row[keys[i]]]

\* the keys of the lookup dictionary built from df
LookupKeys(df, keys) == {KeyOf(df.rows[i], keys) : i \in 1..NumRows(df)}

\* a lookup that keeps the row stored first under key
LookupGetFirst(df, keys, key) ==
    LET hits == {i \in 1..NumRows(df) : KeyOf(df.rows[i], keys) = key}
    IN  IF hits = {} THEN None ELSE Some(df.rows[CHOOSE i \in hits : \A j \in hits : i <= j])

\* lookup.get(key): the row stored last under key, or None
LookupGet(df, keys, key) ==
    LET hits == {i \in 1..NumRows(df) : KeyOf(df.rows[i], keys) = key}
    IN  IF hits = {} THEN None ELSE Some(df.rows[Max(hits)])

\* all_keys = set(df1_lookup.keys()) | set(df2_lookup.keys())
AllKeys(d1, d2, keys) == LookupKeys(d1, keys) \cup LookupKeys(d2, keys)

\* key_order is all_keys in its iteration order; the result is matches.items()
_match_rows_by_keys(d1, d2, keys, key_order) ==
    [i \in 1..Len(key_order) |->
        <<LookupGet(d1, keys, key_order[i]), LookupGet(d2, keys, key_order[i])>>]

----------------------------------------------------------------------------
(* Row classification *)

DiffRow(row_index, status, old_data, new_data, changed_columns) ==
    [row_index |-> row_index, status |-> status, old_data |-> old_data,
     new_data |-> new_data, changed_columns |-> changed_columns]

\* _compare_rows passing a removed row's data as new_data
_compare_rowsMut(old_row, new_row, all_columns, row_index) ==
    IF old_row = None /\ new_row # None
    THEN DiffRow(row_index, "added", None, Some(Project(new_row[1], all_columns)), None)
    ELSE IF old_row # None /\ new_row = None
    THEN DiffRow(row_index, "removed", None, Some(Project(old_row[1], all_columns)), None)
    ELSE IF old_row # None /\ new_row # None
    THEN LET old_data == Project(old_row[1], all_columns)
             new_data == Project(new_row[1], all_columns)
             changed_columns ==
                 SelectSeq(all_columns,
                           LAMBDA col : Strip(Get(old_data, col)) # Strip(Get(new_data, col)))
         IN  DiffRow(row_index,
                     IF changed_columns # <<>> THEN "modified" ELSE "unchanged",
                     Some(old_data), Some(new_data),
                     IF changed_columns # <<>> THEN Some(changed_columns) ELSE None)
    ELSE DiffRow(row_index, "unchanged", None, None, None)

\* _compare_rows looking for changes only in the columns both rows have
_compare_rowsSharedColumns(old_row, new_row, all_columns, row_index) ==
    IF old_row = None /\ new_row # None
    THEN DiffRow(row_index, "added", None, Some(Project(new_row[1], all_columns)), None)
    ELSE IF old_row # None /\ new_row = None
    THEN DiffRow(row_index, "removed", Some(Project(old_row[1], all_columns)), None, None)
    ELSE IF old_row # None /\ new_row # None
    THEN LET old_data == Project(old_row[1], all_columns)
             new_data == Project(new_row[1], all_columns)
             changed_columns ==
                 SelectSeq(all_columns,
                           LAMBDA col : /\ col \in DOMAIN old_row[1] \cap DOMAIN new_row[1]
                                        /\ Strip(Get(old_data, col)) # Strip(Get(new_data, col)))
         IN  DiffRow(row_index,
                     IF changed_columns # <<>> THEN "modified" ELSE "unchanged",
                     Some(old_data), Some(new_data),
                     IF changed_columns # <<>> THEN Some(changed_columns) ELSE None)
    ELSE DiffRow(row_index, "unchanged", None, None, None)

\* _compare_rows looking for changes only in the columns of the old row
_compare_rowsOwnColumns(old_row, new_row, all_columns, row_index) ==
    IF old_row = None /\ new_row # None
    THEN DiffRow(row_index, "added", None, Some(Project(new_row[1], all_columns)), None)
    ELSE IF old_row # None /\ new_row = None
    THEN DiffRow(row_index, "removed", Some(Project(old_row[1], all_columns)), None, None)
    ELSE IF old_row # None /\ new_row # None
    THEN LET old_data == Project(old_row[1], all_columns)
             new_data == Project(new_row[1], all_columns)
             changed_columns ==
                 SelectSeq(all_columns,
                           LAMBDA col : /\ col \in DOMAIN old_row[1]
                                        /\ Strip(Get(old_data, col)) # Strip(Get(new_data, col)))
         IN  DiffRow(row_index,
                     IF changed_columns # <<>> THEN "modified" ELSE "unchanged",
                     Some(old_data), Some(new_data),
                     IF changed_columns # <<>> THEN Some(changed_columns) ELSE None)
    ELSE DiffRow(row_index, "unchanged", None, None, None)

\* old_row and new_row are Optional rows
_compare_rows(old_row, new_row, all_columns, row_index) ==
    IF old_row = None /\ new_row # None
    THEN DiffRow(row_index, "added", None, Some(Project(new_row[1], all_columns)), None)
    ELSE IF old_row # None /\ new_row = None
    THEN DiffRow(row_index, "removed", Some(Project(old_row[1], all_columns)), None, None)
    ELSE IF old_row # None /\ new_row # None
    THEN LET old_data == Project(old_row[1], all_columns)
             new_data == Project(new_row[1], all_columns)
             changed_columns ==
                 SelectSeq(all_columns,
                           LAMBDA col : Strip(Get(old_data, col)) # Strip(Get(new_data, col)))
         IN  DiffRow(row_index,
                     IF changed_columns # <<>> THEN "modified" ELSE "unchanged",
                     Some(old_data), Some(new_data),
                     IF changed_columns # <<>> THEN Some(changed_columns) ELSE None)
    ELSE DiffRow(row_index, "unchanged", None, None, None)

----------------------------------------------------------------------------
(* Results *)

DiffSummary(total_rows, added_rows, removed_rows, modified_rows, unchanged_rows) ==
    [total_rows |-> total_rows, added_rows |-> added_rows, removed_rows |-> removed_rows,
     modified_rows |-> modified_rows, unchanged_rows |-> unchanged_rows]

DiffResult(summary, column_names, rows, f1, f2) ==
    [summary |-> summary, column_names |-> column_names, rows |-> rows,
     file1_name |-> f1, file2_name |-> f2]

\* sum(1 for row in diff_rows if row.status == status)
CountStatus(diff_rows, status) ==
    Cardinality({i \in 1..Len(diff_rows) : diff_rows[i].status = status})

\* the summary statistics with the modified rows counted under a misspelt status
CompareSummaryMut(diff_rows) ==
    DiffSummary(Len(diff_rows),
                CountStatus(diff_rows, "added"),
                CountStatus(diff_rows, "removed"),
                CountStatus(diff_rows, "changed"),
                CountStatus(diff_rows, "unchanged"))

\* the summary statistics of compare
CompareSummary(diff_rows) ==
    DiffSummary(Len(diff_rows),
                CountStatus(diff_rows, "added"),
                CountStatus(diff_rows, "removed"),
                CountStatus(diff_rows, "modified"),
                CountStatus(diff_rows, "unchanged"))

\* the summary of compare_customers
CustomersSummary(diff_rows) ==
    LET added_count == Len(diff_rows)
    IN  DiffSummary(added_count, added_count, 0, 0, 0)

\* what a call leaves behind: the value returned or the exception raised, and the
\* locals the properties refer to
Returned(result, keys, id_column) ==
    [pc |-> "returned", ret |-> Some(result), exc |-> "", key_columns |-> keys,
     customer_id_column |-> id_column]

Raised(name, id_column) ==
    [pc |-> "raised", ret |-> None, exc |-> name, key_columns |-> <<>>,
     customer_id_column |-> id_column]

----------------------------------------------------------------------------
(* compare *)

\* all_columns taken from the first table only
AllColumnsMut(d1, d2) == Sorted(d1.cols)

\* all_columns = sorted(set(df1.columns) | set(df2.columns))
AllColumns(d1, d2) == Sorted(d1.cols \cup d2.cols)

\* the key-based branch of compare
KeyedRows(n1, n2, keys, key_order, all_columns) ==
    LET matches == _match_rows_by_keys(n1, n2, keys, key_order)
    IN  [i \in 1..Len(matches) |->
            _compare_rows(matches[i][1], matches[i][2], all_columns, i - 1)]

\* df.iloc[i] if i < len(df) else None   (i counts from 0)
RowAt(df, i) == IF i < NumRows(df) THEN Some(df.rows[i + 1]) ELSE None

\* the position-based branch stopping at the end of the shorter table
PositionalRowsMin(n1, n2, all_columns) ==
    LET max_rows == MinOf(NumRows(n1), NumRows(n2))
    IN  [j \in 1..max_rows |->
            _compare_rows(RowAt(n1, j - 1), RowAt(n2, j - 1), all_columns, j - 1)]

\* the position-based branch of compare
PositionalRows(n1, n2, all_columns) ==
    LET max_rows == MaxOf(NumRows(n1), NumRows(n2))
    IN  [j \in 1..max_rows |->
            _compare_rows(RowAt(n1, j - 1), RowAt(n2, j - 1), all_columns, j - 1)]

\* compare, for one iteration order of the common columns and one of the key tuples
compare(d1, d2, f1, f2, common_columns, key_order) ==
    IF IsEmpty(d1) /\ IsEmpty(d2)
    THEN Returned(DiffResult(DiffSummary(0, 0, 0, 0, 0), <<>>, <<>>, f1, f2), <<>>, None)
    ELSE LET df1_normalized == _normalize_dataframe(d1)
             df2_normalized == _normalize_dataframe(d2)
             all_columns == AllColumns(df1_normalized, df2_normalized)
             keys == _find_key_columns(df1_normalized, df2_normalized, common_columns)
             diff_rows ==
                 IF keys # <<>>
                 THEN KeyedRows(df1_normalized, df2_normalized, keys, key_order, all_columns)
                 ELSE PositionalRows(df1_normalized, df2_normalized, all_columns)
         IN  Returned(DiffResult(CompareSummary(diff_rows), all_columns, diff_rows, f1, f2),
                      keys, None)

\* the orders in which the set of key tuples can be iterated, given the order of
\* the common columns
KeyOrders(d1, d2, common_columns) ==
    LET n1 == _normalize_dataframe(d1)
        n2 == _normalize_dataframe(d2)
    IN  Perms(AllKeys(n1, n2, _find_key_columns(n1, n2, common_columns)))

\* every outcome compare can have on (d1, d2)
CompareOutcomes(d1, d2, f1, f2) ==
    UNION {{compare(d1, d2, f1, f2, common_columns, key_order) :
                key_order \in KeyOrders(d1, d2, common_columns)} :
           common_columns \in Perms(d1.cols \cap d2.cols)}

----------------------------------------------------------------------------
(* compare_customers *)

potential_id_columns ==
    <<"id", "customer_id", "user_id", "merchant_id", "merchant-display-name",
      "merchant-public-id">>

\* an auto-detection taking the first column of all_columns that is a potential
\* ID column
AutoDetectInColumnOrder(all_columns) ==
    LET found == SelectSeq(all_columns, LAMBDA col : col \in ToSet(potential_id_columns))
    IN  IF found # <<>> THEN Some(found[1])
        ELSE IF all_columns # <<>> THEN Some(all_columns[1])
        ELSE None

\* the auto-detection of the customer ID column
AutoDetect(all_columns) ==
    LET found == SelectSeq(potential_id_columns, LAMBDA col : col \in ToSet(all_columns))
    IN  IF found # <<>> THEN Some(found[1])
        ELSE IF all_columns # <<>> THEN Some(all_columns[1])
        ELSE None

\* the loop testing membership in new_customers instead of added_customer_ids
CustomerRowsMut(n1, n2, id_column, all_columns) ==
    LET new_customers == ColumnValues(n2, id_column)
        kept == SelectSeq(n2.rows, LAMBDA row : row[id_column] \in new_customers)
    IN  [i \in 1..Len(kept) |->
            DiffRow(i - 1, "added", None, Some(Project(kept[i], all_columns)), None)]

\* the loop numbering each diff row with the position of its row in df2
CustomerRowsDfIndex(n1, n2, id_column, all_columns) ==
    LET old_customers == ColumnValues(n1, id_column)
        new_customers == ColumnValues(n2, id_column)
        added_customer_ids == new_customers \ old_customers
        kept == SelectSeq([i \in 1..NumRows(n2) |-> i],
                          LAMBDA i : n2.rows[i][id_column] \in added_customer_ids)
    IN  [i \in 1..Len(kept) |->
            DiffRow(kept[i] - 1, "added", None, Some(Project(n2.rows[kept[i]], all_columns)),
                    None)]

\* the loop over df2_normalized that creates the diff rows
CustomerRows(n1, n2, id_column, all_columns) ==
    LET old_customers == ColumnValues(n1, id_column)
        new_customers == ColumnValues(n2, id_column)
        added_customer_ids == new_customers \ old_customers
        kept == SelectSeq(n2.rows, LAMBDA row : row[id_column] \in added_customer_ids)
    IN  [i \in 1..Len(kept) |->
            DiffRow(i - 1, "added", None, Some(Project(kept[i], all_columns)), None)]

\* compare_customers falling back to compare only when no identifier column is named
compare_customersMut(d1, d2, f1, f2, arg) ==
    IF IsEmpty(d1) /\ IsEmpty(d2)
    THEN {Returned(DiffResult(DiffSummary(0, 0, 0, 0, 0), <<>>, <<>>, f1, f2), <<>>, arg)}
    ELSE LET df1_normalized == _normalize_dataframe(d1)
             df2_normalized == _normalize_dataframe(d2)
             all_columns == AllColumns(df1_normalized, df2_normalized)
             id_column == IF arg = None THEN AutoDetect(all_columns) ELSE arg
         IN  IF id_column = None \/ id_column = Some("")
             THEN {[o EXCEPT !.customer_id_column = id_column] :
                       o \in CompareOutcomes(d1, d2, f1, f2)}
             ELSE IF id_column[1] \notin df1_normalized.cols
                     \/ id_column[1] \notin df2_normalized.cols
             THEN {Raised("KeyError", id_column)}
             ELSE LET diff_rows ==
                          CustomerRows(df1_normalized, df2_normalized, id_column[1],
                                       all_columns)
                  IN  {Returned(DiffResult(CustomersSummary(diff_rows), all_columns,
                                           diff_rows, f1, f2),
                                <<>>, id_column)}

\* every outcome compare_customers can have on (d1, d2); arg is None or Some(column)
compare_customers(d1, d2, f1, f2, arg) ==
    IF IsEmpty(d1) /\ IsEmpty(d2)
    THEN {Returned(DiffResult(DiffSummary(0, 0, 0, 0, 0), <<>>, <<>>, f1, f2), <<>>, arg)}
    ELSE LET df1_normalized == _normalize_dataframe(d1)
             df2_normalized == _normalize_dataframe(d2)
             all_columns == AllColumns(df1_normalized, df2_normalized)
             id_column == IF arg = None THEN AutoDetect(all_columns) ELSE arg
         IN  IF id_column = None \/ id_column = Some("")
                \/ id_column[1] \notin ToSet(all_columns)
             THEN {[o EXCEPT !.customer_id_column = id_column] :
                       o \in CompareOutcomes(d1, d2, f1, f2)}
             ELSE IF id_column[1] \notin df1_normalized.cols
                     \/ id_column[1] \notin df2_normalized.cols
             THEN {Raised("KeyError", id_column)}
             ELSE LET diff_rows ==
                          CustomerRows(df1_normalized, df2_normalized, id_column[1],
                                       all_columns)
                  IN  {Returned(DiffResult(CustomersSummary(diff_rows), all_columns,
                                           diff_rows, f1, f2),
                                <<>>, id_column)}

----------------------------------------------------------------------------
(* Inputs *)

\* the tables with a column set of colSets, at most maxRows rows and cells of
\* cells; a table without columns has no rows
Tables(colSets, cells, maxRows) ==
    UNION {{DataFrame(cs, r) :
                r \in UNION {[1..n -> [cs -> cells]] :
                                 n \in 0..(IF cs = {} THEN 0 ELSE maxRows)}} :
           cs \in colSets}

\* largest number of rows of a table of the general family
MaxRows == 2

GeneralColumns == {"id", "name"}

GeneralCells == {<<"1">>, <<"2">>}

GeneralTables == Tables(SUBSET GeneralColumns, GeneralCells, MaxRows)

\* largest number of rows of a table of the whitespace family
WsRows == 2

\* "", " ", "a", "a ", " a" and the null marker
WsCells == {<<>>, <<" ">>, <<"a">>, <<"a", " ">>, <<" ", "a">>, NaN}

WsTables == Tables({{}, {"id"}}, WsCells, WsRows)

Digits == <<"1", "2", "3", "4", "5", "6", "7", "8", "9">>

\* largest number of rows of a table of the wide family
WideRows == 2

WideColumns == {"age", "id", "name", "zip"}

\* tables with four columns and rows 1, 2, ...: in a table of the kind "all"
\* every cell of row i is the digit i, in one of the kind "some" the cells of id
\* and zip are the digit i and the others "1", in one of the kind "none" every
\* cell is "1"
WideTables ==
    {DataFrame(WideColumns,
               [i \in 1..n |-> [c \in WideColumns |->
                    IF kind = "all" \/ (kind = "some" /\ c \in {"id", "zip"})
                    THEN <<Digits[i]>> ELSE <<"1">>]]) :
        n \in 0..WideRows, kind \in {"all", "some", "none"}}

\* number of rows of a table of the tall family
TallRows == 5

\* tables with columns id and name and TallRows rows: name is constant and id
\* has d distinct values, d from TallRows - 2 to TallRows
TallTables ==
    {DataFrame({"id", "name"},
               [i \in 1..TallRows |-> [c \in {"id", "name"} |->
                    IF c = "id" THEN <<Digits[MinOf(i, d)]>> ELSE <<"1">>]]) :
        d \in (TallRows - 2)..TallRows}

\* largest number of rows of a table of the identifier family
IdRows == 1

IdColumns == {"age", "customer_id", "id", "merchant_id", "user_id", "zip"}

\* tables with one or two of the columns of IdColumns, every cell of row i
\* being digits[i]
IdTables ==
    {DataFrame(cs, [i \in 1..Len(digits) |-> [c \in cs |-> <<digits[i]>>]]) :
        cs \in {x \in SUBSET IdColumns : Cardinality(x) \in {1, 2}},
        digits \in UNION {[1..n -> {"1", "2"}] : n \in 0..IdRows}}

\* largest number of rows of a table of the sparse family
SparseRows == 1

\* "", " " and "1"
SparseCells == {<<>>, <<" ">>, <<"1">>}

\* tables with the column id, the column name or both, and cells that may be empty
SparseTables == Tables({{"id"}, {"name"}, {"id", "name"}}, SparseCells, SparseRows)

\* the values of compare_customers' argument customer_id_column
CustomerIdArgs == {None, Some("id"), Some("name"), Some("zip")}

----------------------------------------------------------------------------
(* POST /api/compare *)

\* DiffRow.to_dict
DiffRowToDict(row) ==
    [rowIndex |-> row.row_index, status |-> row.status, oldData |-> row.old_data,
     newData |-> row.new_data,
     changedColumns |-> IF row.changed_columns = None THEN <<>> ELSE row.changed_columns[1]]

\* DiffSummary.to_dict
DiffSummaryToDict(summary) ==
    [totalRows |-> summary.total_rows, addedRows |-> summary.added_rows,
     removedRows |-> summary.removed_rows, modifiedRows |-> summary.modified_rows,
     unchangedRows |-> summary.unchanged_rows]

\* DiffResult.to_dict
DiffResultToDict(result) ==
    [summary |-> DiffSummaryToDict(result.summary), columnNames |-> result.column_names,
     rows |-> [i \in 1..Len(result.rows) |-> DiffRowToDict(result.rows[i])],
     file1Name |-> result.file1_name, file2Name |-> result.file2_name]

\* the table read_file_to_dataframe returns for a CSV file that pd.read_csv
\* parses to df: the columns of dtype object (those holding a string) are
\* converted with astype(str), which turns their null cells into 'nan'
read_file_to_dataframe(df) ==
    LET isObject(c) == \E i \in 1..NumRows(df) : df.rows[i][c] # NaN
    IN  DataFrame(df.cols,
            [i \in 1..NumRows(df) |->
                [c \in df.cols |->
                    IF isObject(c) /\ df.rows[i][c] = NaN THEN NanStr ELSE df.rows[i][c]]])

JSONResponse(content) == [status_code |-> 200, content |-> content]

HTTPException(status_code) == [status_code |-> status_code, content |-> None]

----------------------------------------------------------------------------
(* Specification: one call of compare or compare_customers on a pair of tables *)

InitOn(tables) ==
    /\ df1 \in tables
    /\ df2 \in tables
    /\ pc = "ready"
    /\ op = "none"
    /\ customer_id_arg = None
    /\ customer_id_column = None
    /\ key_columns = <<>>
    /\ file1_name = "file1.csv"
    /\ file2_name = "file2.csv"
    /\ ret = None
    /\ exc = ""
    /\ response = None

Init == InitOn(GeneralTables)

\* the same call on tables whose cells carry leading and trailing whitespace
InitWs == InitOn(WsTables)

\* the same call on tables with four columns and on tables whose id column has
\* 80% distinct values or a little more or less
InitKeys == InitOn(WideTables) \/ InitOn(TallTables)

\* the same call on tables with several columns named like identifiers
InitIds == InitOn(IdTables)

\* the same call on tables with empty cells and differing columns
InitSparse == InitOn(SparseTables)

Finish(o) ==
    /\ pc' = o.pc
    /\ ret' = o.ret
    /\ exc' = o.exc
    /\ key_columns' = o.key_columns
    /\ customer_id_column' = o.customer_id_column

\* differ.compare(df1, df2, file1_name, file2_name)
Compare ==
    /\ pc = "ready"
    /\ op' = "compare"
    /\ customer_id_arg' = None
    /\ \E o \in CompareOutcomes(df1, df2, file1_name, file2_name) : Finish(o)
    /\ UNCHANGED <<df1, df2, file1_name, file2_name, response>>

\* differ.compare_customers(df1, df2, file1_name, file2_name, customer_id_column)
CompareCustomers ==
    /\ pc = "ready"
    /\ op' = "compare_customers"
    /\ \E arg \in CustomerIdArgs :
          /\ customer_id_arg' = arg
          /\ \E o \in compare_customers(df1, df2, file1_name, file2_name, arg) : Finish(o)
    /\ UNCHANGED <<df1, df2, file1_name, file2_name, response>>

\* POST /api/compare with file1 and file2 parsed to df1 and df2: both file names
\* end with .csv, so neither 400 branch is taken; the differ is called without
\* a customer_id_column and an exception becomes a 500 response
compare_csv_files ==
    /\ pc = "ready"
    /\ op' = "compare_csv_files"
    /\ customer_id_arg' = None
    /\ \E o \in compare_customers(read_file_to_dataframe(df1), read_file_to_dataframe(df2),
                                   file1_name, file2_name, None) :
          /\ Finish(o)
          /\ response' = IF o.pc = "returned"
                            THEN Some(JSONResponse(DiffResultToDict(o.ret[1])))
                            ELSE Some(HTTPException(500))
    /\ UNCHANGED <<df1, df2, file1_name, file2_name>>

Next == Compare \/ CompareCustomers \/ compare_csv_files

Spec == Init /\ [][Next]_vars

SpecWs == InitWs /\ [][Next]_vars

SpecKeys == InitKeys /\ [][Next]_vars

SpecIds == InitIds /\ [][Next]_vars

SpecSparse == InitSparse /\ [][Next]_vars

----------------------------------------------------------------------------
(* Properties *)

\* the DiffResult returned
Result == ret[1]

Statuses == {"added", "removed", "modified", "unchanged"}

\* the number of DiffRows of rows with the status st
NumStatus(rows, st) == Len(SelectSeq(rows, LAMBDA r : r.status = st))

CountsAre(summary, total, added, removed, modified, unchanged) ==
    /\ summary.total_rows = total
    /\ summary.added_rows = added
    /\ summary.removed_rows = removed
    /\ summary.modified_rows = modified
    /\ summary.unchanged_rows = unchanged

\* C1: the summary of every DiffResult returned by compare and by
\* compare_customers has totalRows = addedRows + removedRows + modifiedRows +
\* unchangedRows, and each count is the number of DiffRows with that status.
C1_SummaryConsistent ==
    pc = "returned" =>
        LET s == Result.summary
            rows == Result.rows
        IN  /\ s.total_rows = s.added_rows + s.removed_rows + s.modified_rows + s.unchanged_rows
            /\ s.total_rows = Len(rows)
            /\ s.added_rows = NumStatus(rows, "added")
            /\ s.removed_rows = NumStatus(rows, "removed")
            /\ s.modified_rows = NumStatus(rows, "modified")
            /\ s.unchanged_rows = NumStatus(rows, "unchanged")

\* a full comparison that reports an added, a removed and an unchanged row
C1_Witness ==
    /\ pc = "returned"
    /\ op = "compare"
    /\ Result.summary.added_rows >= 1
    /\ Result.summary.removed_rows >= 1
    /\ Result.summary.unchanged_rows >= 1

\* C2: compare(T, T) reports every row of T as unchanged: unchangedRows is the
\* number of rows of T, the other counts are 0 and every DiffRow is unchanged.
C2_SelfCompareAllUnchanged ==
    (pc = "returned" /\ op = "compare" /\ df1 = df2) =>
        /\ CountsAre(Result.summary, NumRows(df1), 0, 0, 0, NumRows(df1))
        /\ \A i \in 1..Len(Result.rows) : Result.rows[i].status = "unchanged"

\* the rows of table `mine` that are present only there: in keyed mode the rows
\* whose key tuple does not occur in `other`, in positional mode the rows beyond
\* the end of `other`
OnlyIn(mine, other, keys) ==
    {j \in 1..NumRows(mine) :
        IF keys # <<>>
        THEN \A i \in 1..NumRows(other) : KeyOf(other.rows[i], keys) # KeyOf(mine.rows[j], keys)
        ELSE j > NumRows(other)}

\* C3: in compare every row present only in table B yields exactly one added
\* DiffRow holding that row as newData and no oldData, every row present only
\* in table A yields exactly one removed DiffRow holding that row as oldData and
\* no newData, and no other row is reported as added or removed.
C3_AddedRemovedPerRow ==
    (pc = "returned" /\ op = "compare") =>
        LET n1 == _normalize_dataframe(df1)
            n2 == _normalize_dataframe(df2)
            cols == Sorted(df1.cols \cup df2.cols)
            rows == Result.rows
            onlyA == OnlyIn(n1, n2, key_columns)
            onlyB == OnlyIn(n2, n1, key_columns)
        IN  /\ NumStatus(rows, "added") = Cardinality(onlyB)
            /\ NumStatus(rows, "removed") = Cardinality(onlyA)
            /\ \A j \in onlyB :
                  \E i \in 1..Len(rows) :
                      /\ rows[i].status = "added"
                      /\ rows[i].new_data = Some([c \in ToSet(cols) |-> Get(n2.rows[j], c)])
                      /\ rows[i].old_data = None
            /\ \A j \in onlyA :
                  \E i \in 1..Len(rows) :
                      /\ rows[i].status = "removed"
                      /\ rows[i].old_data = Some([c \in ToSet(cols) |-> Get(n1.rows[j], c)])
                      /\ rows[i].new_data = None

\* the rows of the two tables agree, position by position, outside column c
AgreeExcept(a, b, c) ==
    /\ a.cols = b.cols
    /\ NumRows(a) = NumRows(b)
    /\ \A i \in 1..NumRows(a) : \A d \in a.cols \ {c} : a.rows[i][d] = b.rows[i][d]

\* the values of column c are pairwise distinct
Distinct(df, c) == \A i, j \in 1..NumRows(df) : i # j => df.rows[i][c] # df.rows[j][c]

\* C4: when both tables have the same rows with the same distinct id values and
\* differ only in column c, in k of the n rows, compare reports n rows, k of them
\* modified with c among the changed columns, n - k unchanged, none added or
\* removed; also when the values of c are all distinct in both tables.
C4_ModifiedByNonIdColumn ==
    (pc = "returned" /\ op = "compare") =>
        \A c \in (df1.cols \cap df2.cols) \ {"id"} :
            ("id" \in df1.cols /\ AgreeExcept(df1, df2, c) /\ NumRows(df1) > 0
                /\ Distinct(df1, "id")) =>
                LET n == NumRows(df1)
                    k == Cardinality({i \in 1..n : df1.rows[i][c] # df2.rows[i][c]})
                IN  /\ CountsAre(Result.summary, n, 0, 0, k, n - k)
                    /\ \A i \in 1..Len(Result.rows) :
                          Result.rows[i].status = "modified" =>
                              /\ Result.rows[i].changed_columns # None
                              /\ c \in ToSet(Result.rows[i].changed_columns[1])

\* C5: compare and compare_customers never raise on a pair of rectangular
\* tables: every call returns a DiffResult.
C5_NeverRaises == pc # "raised"

\* the rows of B that compare_customers has to report: those whose normalized
\* identifier is not an identifier of A, in B's order
NewCustomerRows(a, b, c) ==
    LET na == [i \in 1..NumRows(a) |-> NormalizeCell(a.rows[i][c])]
        nb == _normalize_dataframe(b)
    IN  SelectSeq(nb.rows, LAMBDA r : \A i \in 1..Len(na) : na[i] # r[c])

\* C6: with an identifier column present in both tables, compare_customers
\* emits one added DiffRow for every row of B whose normalized identifier does
\* not occur among A's identifiers, in B's row order, and nothing else; the
\* summary has totalRows = addedRows = the number of emitted rows and the other
\* counts 0.
C6_CustomersAdditionsOnly ==
    (pc = "returned" /\ op = "compare_customers" /\ customer_id_column # None) =>
        LET c == customer_id_column[1]
        IN  (c \in df1.cols /\ c \in df2.cols) =>
                LET expected == NewCustomerRows(df1, df2, c)
                    cols == Sorted(df1.cols \cup df2.cols)
                    rows == Result.rows
                IN  /\ Len(rows) = Len(expected)
                    /\ \A i \in 1..Len(rows) :
                          /\ rows[i].status = "added"
                          /\ rows[i].new_data = Some([d \in ToSet(cols) |-> Get(expected[i], d)])
                          /\ rows[i].old_data = None
                    /\ CountsAre(Result.summary, Len(rows), Len(rows), 0, 0, 0)

\* compare_customers emitted two rows of B whose identifiers differ as written
\* and are the same new identifier once normalized, while A has rows of its own
C6_Witness ==
    /\ pc = "returned"
    /\ op = "compare_customers"
    /\ customer_id_column # None
    /\ customer_id_column[1] \in df1.cols \cap df2.cols
    /\ NumRows(df1) > 0
    /\ NumRows(df2) = 2
    /\ df2.rows[1][customer_id_column[1]] # df2.rows[2][customer_id_column[1]]
    /\ Len(Result.rows) = 2
    /\ Result.rows[1].new_data[1][customer_id_column[1]]
           = Result.rows[2].new_data[1][customer_id_column[1]]

\* C7: in every DiffRow of a result, oldData is absent iff the status is added
\* and newData is absent iff the status is removed, so that modified and
\* unchanged rows carry both.
C7_DataPresence ==
    pc = "returned" =>
        \A i \in 1..Len(Result.rows) :
            LET r == Result.rows[i]
            IN  /\ r.status \in Statuses
                /\ (r.old_data = None) <=> (r.status = "added")
                /\ (r.new_data = None) <=> (r.status = "removed")

\* a full comparison that reports an added, a removed and a modified row
C7_Witness ==
    /\ pc = "returned"
    /\ op = "compare"
    /\ \E i, j, k \in 1..Len(Result.rows) :
          /\ Result.rows[i].status = "added"
          /\ Result.rows[j].status = "removed"
          /\ Result.rows[k].status \in {"modified", "unchanged"}

\* the two tables have the same columns and the same number of rows, and cells
\* at the same place differ at most by leading and trailing whitespace
WhitespaceVariants(a, b) ==
    /\ a.cols = b.cols
    /\ NumRows(a) = NumRows(b)
    /\ \A i \in 1..NumRows(a) : \A c \in a.cols : Strip(a.rows[i][c]) = Strip(b.rows[i][c])

\* C8: rows that differ only by leading or trailing whitespace of their cells
\* are paired and classified unchanged: comparing two tables that are
\* whitespace variants of each other reports no modified, added or removed row.
C8_WhitespaceIgnored ==
    (pc = "returned" /\ op = "compare" /\ WhitespaceVariants(df1, df2)) =>
        /\ NumRows(df1) > 0 => Len(Result.rows) > 0
        /\ \A i \in 1..Len(Result.rows) : Result.rows[i].status = "unchanged"

\* two tables that differ, by whitespace only, in a key cell were compared
C8_Witness ==
    /\ pc = "returned"
    /\ op = "compare"
    /\ WhitespaceVariants(df1, df2)
    /\ key_columns # <<>>
    /\ \E i \in 1..NumRows(df1) : \E c \in ToSet(key_columns) :
          /\ df1.rows[i][c] # df2.rows[i][c]
          /\ Strip(df1.rows[i][c]) # <<>>
    /\ Result.summary.unchanged_rows > 0

\* C9: on two tables without rows, with or without declared columns, compare
\* and compare_customers return an empty DiffResult (all counts 0, no column
\* names, no rows) and select neither key columns nor an identifier column.
C9_EmptyTables ==
    (pc # "ready" /\ NumRows(df1) = 0 /\ NumRows(df2) = 0) =>
        /\ pc = "returned"
        /\ CountsAre(Result.summary, 0, 0, 0, 0, 0)
        /\ Result.column_names = <<>>
        /\ Result.rows = <<>>
        /\ key_columns = <<>>
        /\ customer_id_column = customer_id_arg

\* compare_customers without identifier argument returned for two tables that
\* declare columns but have no rows
C9_Witness ==
    /\ pc = "returned"
    /\ op = "compare_customers"
    /\ customer_id_arg = None
    /\ NumRows(df1) = 0
    /\ NumRows(df2) = 0
    /\ df1.cols # {}
    /\ df2.cols # {}

\* C10: compare is a function of its two tables: whatever the iteration order
\* of the set of common columns and of the set of key tuples, it returns the
\* DiffResult and selects the key columns of the run observed.
C10_Deterministic ==
    (pc = "returned" /\ op = "compare") =>
        \A o \in CompareOutcomes(df1, df2, file1_name, file2_name) :
            /\ o.ret = ret
            /\ ToSet(o.key_columns) = ToSet(key_columns)

\* the key tuples of the DiffRows returned, in the order of the DiffRows
ReturnedKeyOrder ==
    [i \in 1..Len(Result.rows) |->
        KeyOf(IF Result.rows[i].old_data # None THEN Result.rows[i].old_data[1]
                                                ELSE Result.rows[i].new_data[1],
              key_columns)]

\* the result returned is one compare returns for df1 and df2: the one for
\* some order of the common columns and for the key tuples in the order of the
\* DiffRows returned, which is an order of all key tuples without repetition
ReturnedByCompare ==
    /\ pc = "returned"
    /\ \E common_columns \in Perms(df1.cols \cap df2.cols) :
          LET o == compare(df1, df2, file1_name, file2_name, common_columns, ReturnedKeyOrder)
              all_keys == AllKeys(_normalize_dataframe(df1), _normalize_dataframe(df2),
                                  key_columns)
          IN  /\ o.ret = ret
              /\ o.key_columns = key_columns
              /\ key_columns # <<>> =>
                    /\ ToSet(ReturnedKeyOrder) = all_keys
                    /\ Len(ReturnedKeyOrder) = Cardinality(all_keys)

\* C11: compare_customers called with an identifier column that is a column of
\* neither table does not fail: it returns a DiffResult that compare returns for
\* the same tables and file names.
C11_AbsentColumnFallsBack ==
    (pc # "ready" /\ op = "compare_customers" /\ customer_id_arg # None) =>
        \/ customer_id_arg[1] \in df1.cols \cup df2.cols
        \/ ReturnedByCompare

\* compare_customers, given a column of neither table, returned a result with a
\* removed and an unchanged row
C11_Witness ==
    /\ pc = "returned"
    /\ op = "compare_customers"
    /\ customer_id_arg = Some("zip")
    /\ "zip" \notin df1.cols \cup df2.cols
    /\ Result.summary.removed_rows >= 1
    /\ Result.summary.unchanged_rows >= 1

\* the place of a column name in the lexicographic order
ColumnRank(c) == CHOOSE i \in 1..Len(ColumnOrder) : ColumnOrder[i] = c

\* data, the oldData or newData of a DiffRow, has exactly the columns cols as
\* keys and "" for every column that the table with the columns own lacks
DataOver(data, cols, own) ==
    data # None =>
        /\ DOMAIN data[1] = cols
        /\ \A c \in cols \ own : data[1][c] = EmptyStr

\* C12: the columnNames of a non-empty comparison result are the union of the
\* column names of both tables, each once, in lexicographic order, and the
\* oldData and newData of every DiffRow have exactly these columns as keys, with
\* "" for a column the row's table does not have.
C12_ColumnUnion ==
    (pc = "returned" /\ ~(NumRows(df1) = 0 /\ NumRows(df2) = 0)) =>
        LET names == Result.column_names
            union == df1.cols \cup df2.cols
        IN  /\ ToSet(names) = union
            /\ Len(names) = Cardinality(union)
            /\ \A i, j \in 1..Len(names) :
                  i < j => ColumnRank(names[i]) < ColumnRank(names[j])
            /\ \A i \in 1..Len(Result.rows) :
                  /\ DataOver(Result.rows[i].old_data, union, df1.cols)
                  /\ DataOver(Result.rows[i].new_data, union, df2.cols)

\* a comparison of a table with column id and a table with columns id and name
\* reported a row whose oldData has "" for name
C12_Witness ==
    /\ pc = "returned"
    /\ op = "compare"
    /\ df1.cols = {"id"}
    /\ df2.cols = {"id", "name"}
    /\ Result.column_names = <<"id", "name">>
    /\ \E i \in 1..Len(Result.rows) :
          /\ Result.rows[i].old_data # None
          /\ Result.rows[i].old_data[1]["name"] = EmptyStr
          /\ Result.rows[i].new_data # None

\* every cell of the normalized table is a string without leading or trailing
\* whitespace, "" where the cell of df is null, and normalizing again changes
\* nothing
NormalizedOk(df) ==
    LET n == _normalize_dataframe(df)
    IN  /\ n.cols = df.cols
        /\ NumRows(n) = NumRows(df)
        /\ \A i \in 1..NumRows(df) : \A c \in df.cols :
              /\ n.rows[i][c] # NaN
              /\ n.rows[i][c] = <<>>
                    \/ (n.rows[i][c][1] \notin Whitespace
                            /\ n.rows[i][c][Len(n.rows[i][c])] \notin Whitespace)
              /\ df.rows[i][c] = NaN => n.rows[i][c] = EmptyStr
        /\ _normalize_dataframe(n) = n

\* the two tables have the same columns and the same number of rows, and cells
\* at the same place are equal or one is null and the other ""
NullVariants(a, b) ==
    /\ a.cols = b.cols
    /\ NumRows(a) = NumRows(b)
    /\ \A i \in 1..NumRows(a) : \A c \in a.cols :
          \/ a.rows[i][c] = b.rows[i][c]
          \/ {a.rows[i][c], b.rows[i][c]} = {NaN, EmptyStr}

OneChangedOneAppended(a, b) ==
    /\ a.cols = b.cols
    /\ "id" \in a.cols
    /\ NumRows(b) = NumRows(a) + 1
    /\ Distinct(b, "id")
    /\ \A i \in 1..NumRows(a) : a.rows[i]["id"] = b.rows[i]["id"]
    /\ Cardinality({ic \in (1..NumRows(a)) \X a.cols :
                        a.rows[ic[1]][ic[2]] # b.rows[ic[1]][ic[2]]}) = 1

\* C14: POST /api/compare answers with the summary of the full row diff: two
\* identical files of n rows give totalRows = unchangedRows = n and the other
\* counts 0; files where one id-matched row changed in a non-id column and one
\* row was appended give modifiedRows = 1, addedRows = 1 and the other rows
\* unchanged.
C14_EndpointFullDiff ==
    (op = "compare_csv_files" /\ response # None) =>
        /\ (df1 = df2 /\ "id" \in df1.cols /\ Distinct(df1, "id")) =>
              /\ response[1].status_code = 200
              /\ LET n == NumRows(df1)
                 IN  response[1].content.summary =
                        [totalRows |-> n, addedRows |-> 0, removedRows |-> 0,
                         modifiedRows |-> 0, unchangedRows |-> n]
        /\ OneChangedOneAppended(df1, df2) =>
              /\ response[1].status_code = 200
              /\ LET n == NumRows(df1)
                 IN  response[1].content.summary =
                        [totalRows |-> n + 1, addedRows |-> 1, removedRows |-> 0,
                         modifiedRows |-> 1, unchangedRows |-> n - 1]

\* the columns of column_names, in that order, in which the trimmed values of
\* the two data dictionaries differ
Differing(column_names, old, new) ==
    SelectSeq(column_names, LAMBDA c : Strip(old[c]) # Strip(new[c]))

\* C15: for a DiffRow of compare with both old and new data, changedColumns is
\* the list, in columnNames order, of the columns whose trimmed old and new
\* values differ; the status is modified iff that list is non-empty and
\* unchanged otherwise; a row that is not modified has no changedColumns.
C15_ChangedColumns ==
    (pc = "returned" /\ op = "compare") =>
        \A i \in 1..Len(Result.rows) :
            LET r == Result.rows[i]
            IN  /\ (r.old_data # None /\ r.new_data # None) =>
                      LET expected == Differing(Result.column_names, r.old_data[1], r.new_data[1])
                      IN  /\ r.status \in {"modified", "unchanged"}
                          /\ r.status = "modified" <=> expected # <<>>
                          /\ expected # <<>> => r.changed_columns = Some(expected)
                /\ r.status # "modified" => r.changed_columns \in {None, Some(<<>>)}
                /\ r.status = "modified" => (r.old_data # None /\ r.new_data # None)

\* an id-matched row changed only in column name is modified with
\* changedColumns = [name], next to an unchanged row
C15_Witness ==
    /\ pc = "returned"
    /\ op = "compare"
    /\ key_columns = <<"id">>
    /\ df1.cols = {"id", "name"}
    /\ \E i \in 1..Len(Result.rows) :
          /\ Result.rows[i].status = "modified"
          /\ Result.rows[i].changed_columns = Some(<<"name">>)
          /\ Result.rows[i].old_data[1]["id"] = Result.rows[i].new_data[1]["id"]
    /\ Result.summary.unchanged_rows = 1

\* compare returned from its key-based branch
KeyedMode == pc = "returned" /\ op = "compare" /\ key_columns # <<>>

\* the key tuples of the normalized table df
KeyTuples(df) ==
    {[k \in 1..Len(key_columns) |-> NormalizeCell(df.rows[i][key_columns[k]])] :
        i \in 1..NumRows(df)}

\* the data of the last row of df with key tuple key, over the columns cols with
\* "" for a column df lacks; None if df has no such row
LastWith(df, key, cols) ==
    LET at == {i \in 1..NumRows(df) :
                 \A k \in 1..Len(key_columns) :
                    NormalizeCell(df.rows[i][key_columns[k]]) = key[k]}
    IN  IF at = {} THEN None
        ELSE LET last == CHOOSE i \in at : \A j \in at : j <= i
             IN  Some([c \in cols |->
                        IF c \in df.cols THEN NormalizeCell(df.rows[last][c]) ELSE EmptyStr])

\* C16: in keyed mode compare returns exactly one DiffRow per distinct key tuple
\* of table A or table B, and the data reported for a key tuple is that of the
\* last row with this key tuple in each table.
C16_OneRowPerKey ==
    KeyedMode =>
        LET keys == KeyTuples(df1) \cup KeyTuples(df2)
            cols == df1.cols \cup df2.cols
        IN  /\ Len(Result.rows) = Cardinality(keys)
            /\ Result.summary.total_rows = Cardinality(keys)
            /\ \A key \in keys :
                  LET pair == <<LastWith(df1, key, cols), LastWith(df2, key, cols)>>
                  IN  Cardinality({i \in 1..Len(Result.rows) :
                                      <<Result.rows[i].old_data, Result.rows[i].new_data>> = pair})
                        = 1

\* two rows of table A share their key tuple and differ elsewhere; the result
\* has one DiffRow for them, holding the second row
C16_Witness ==
    /\ KeyedMode
    /\ key_columns = <<"id">>
    /\ NumRows(df1) = 2
    /\ df1.rows[1]["id"] = df1.rows[2]["id"]
    /\ "name" \in df1.cols
    /\ df1.rows[1]["name"] # df1.rows[2]["name"]
    /\ NumRows(df2) = 2
    /\ Len(Result.rows) = 2
    /\ \E i \in 1..2 : /\ Result.rows[i].old_data # None
                       /\ Result.rows[i].old_data[1]["name"] = df1.rows[2]["name"]
                       /\ Result.rows[i].new_data # None

\* the common columns whose ratio of distinct normalized values to rows in df
\* exceeds 0.8
Qualifying(df) ==
    {c \in df1.cols \cap df2.cols : HighUniqueness(_normalize_dataframe(df), c)}

\* C17: when exactly one table has zero rows, the key columns compare selects
\* are the common columns with more than 80% distinct values in the other
\* table (at most three of them); the first columns of the intersection are
\* taken only when no common column is that unique.
C17_EmptyTablePassesVacuously ==
    (pc = "returned" /\ op = "compare" /\ df1.cols \cap df2.cols # {}
        /\ (NumRows(df1) = 0) # (NumRows(df2) = 0)) =>
        LET q == Qualifying(IF NumRows(df1) = 0 THEN df2 ELSE df1)
        IN  IF q # {}
            THEN /\ ToSet(key_columns) \subseteq q
                 /\ Len(key_columns) = MinOf(MaxKeyColumns, Cardinality(q))
            ELSE Len(key_columns) = MinOf(MaxFallbackColumns, Cardinality(df1.cols \cap df2.cols))

\* more than 80% of the normalized values of column c of df are distinct
Over80Percent(df, c) ==
    LET values == {NormalizeCell(df.rows[i][c]) : i \in 1..NumRows(df)}
    IN  /\ NumRows(df) > 0
        /\ 10 * Cardinality(values) > 8 * NumRows(df)

\* C18: the key columns compare gets from _find_key_columns are at most three
\* columns present in both tables; if some common column has more than 80%
\* distinct values in both tables then every key column has, a column with
\* exactly 80% not being one of them; otherwise the key columns are min(3,
\* number of common columns) columns of the intersection.
C18_KeySet ==
    (pc = "returned" /\ op = "compare" /\ ~(IsEmpty(df1) /\ IsEmpty(df2))) =>
        LET common == df1.cols \cap df2.cols
            q == {c \in common : Over80Percent(df1, c) /\ Over80Percent(df2, c)}
        IN  /\ Len(key_columns) <= 3
            /\ Cardinality(ToSet(key_columns)) = Len(key_columns)
            /\ ToSet(key_columns) \subseteq common
            /\ q # {} => ToSet(key_columns) \subseteq q
            /\ q = {} => Len(key_columns) = MinOf(3, Cardinality(common))

\* four common columns have only distinct values in both tables and three of
\* them are the key columns
C18_Witness ==
    /\ pc = "returned"
    /\ op = "compare"
    /\ Cardinality(df1.cols \cap df2.cols) = 4
    /\ NumRows(df1) = 2
    /\ NumRows(df2) = 2
    /\ \A c \in df1.cols \cap df2.cols : Over80Percent(df1, c) /\ Over80Percent(df2, c)
    /\ Len(key_columns) = 3

\* compare returned a diff of its two tables (not the empty result for two
\* empty tables)
Compared == pc = "returned" /\ op = "compare" /\ ~(IsEmpty(df1) /\ IsEmpty(df2))

\* C19: compare pairs rows by position iff the tables share no column: the key
\* set is empty exactly when the column intersection is empty; with a shared
\* column the rows are paired by key tuple, one DiffRow per key tuple, also
\* when no common column is unique enough and the fallback columns are the keys.
C19_PositionalIffNoSharedColumn ==
    Compared =>
        /\ key_columns = <<>> <=> df1.cols \cap df2.cols = {}
        /\ df1.cols \cap df2.cols # {} =>
              Len(Result.rows) = Cardinality(KeyTuples(df1) \cup KeyTuples(df2))
        /\ df1.cols \cap df2.cols = {} =>
              Len(Result.rows) = MaxOf(NumRows(df1), NumRows(df2))

\* no common column has more than 80% distinct values, and the rows of equal
\* fallback key are merged into fewer DiffRows than either table has rows
C19_Witness ==
    /\ Compared
    /\ df1.cols \cap df2.cols # {}
    /\ \A c \in df1.cols \cap df2.cols : ~Over80Percent(df1, c) /\ ~Over80Percent(df2, c)
    /\ key_columns # <<>>
    /\ NumRows(df1) = 2
    /\ NumRows(df2) = 2
    /\ Len(Result.rows) = 1

\* the data of row i of df over the columns cols, None beyond the last row
DataAt(df, i, cols) ==
    IF i > NumRows(df) THEN None
    ELSE Some([c \in cols |-> IF c \in df.cols THEN NormalizeCell(df.rows[i][c]) ELSE EmptyStr])

\* C20: with an empty key set compare returns max(len(A), len(B)) DiffRows, the
\* i-th of them pairing row i of A with row i of B: beyond the end of A it is
\* added with B's row as newData, beyond the end of B it is removed with A's
\* row as oldData.
C20_PositionalPairing ==
    (Compared /\ key_columns = <<>>) =>
        LET cols == df1.cols \cup df2.cols
        IN  /\ Len(Result.rows) = MaxOf(NumRows(df1), NumRows(df2))
            /\ \A i \in 1..Len(Result.rows) :
                  LET r == Result.rows[i]
                  IN  /\ r.old_data = DataAt(df1, i, cols)
                      /\ r.new_data = DataAt(df2, i, cols)
                      /\ i > NumRows(df1) => r.status = "added"
                      /\ i > NumRows(df2) => r.status = "removed"

\* tables without a common column and of different lengths: the first DiffRow
\* pairs the first rows, the second is the removed second row of A
C20_Witness ==
    /\ Compared
    /\ key_columns = <<>>
    /\ df1.cols = {"id"}
    /\ df2.cols = {"name"}
    /\ NumRows(df1) = 2
    /\ NumRows(df2) = 1
    /\ Len(Result.rows) = 2
    /\ Result.rows[1].status = "modified"
    /\ Result.rows[2].status = "removed"
    /\ Result.rows[2].old_data = DataAt(df1, 2, {"id", "name"})

\* C21: in every DiffResult returned by compare and by compare_customers the
\* DiffRow at position i of rows (counted from 0) has rowIndex i.
C21_RowIndexIsPosition ==
    pc = "returned" =>
        \A i \in 1..Len(Result.rows) : Result.rows[i].row_index = i - 1

\* compare_customers skipped the first row of table B and reported the second:
\* its DiffRow has rowIndex 0
C21_Witness ==
    /\ pc = "returned"
    /\ op = "compare_customers"
    /\ customer_id_column = Some("id")
    /\ "id" \in df1.cols \cap df2.cols
    /\ NumRows(df1) = 1
    /\ NumRows(df2) = 2
    /\ df2.rows[1]["id"] = df1.rows[1]["id"]
    /\ df2.rows[2]["id"] # df1.rows[1]["id"]
    /\ Len(Result.rows) = 1
    /\ Result.rows[1].row_index = 0

\* the first name of the preference list among the columns of cols, or the
\* lexicographically first column of cols if there is none
PreferredColumn(cols) ==
    LET places == {i \in 1..Len(potential_id_columns) : potential_id_columns[i] \in cols}
    IN  IF places # {}
        THEN potential_id_columns[CHOOSE i \in places : \A j \in places : i <= j]
        ELSE CHOOSE c \in cols : \A d \in cols : ColumnRank(c) <= ColumnRank(d)

\* C22: compare_customers called without an identifier column uses the first
\* name of the preference list that is a column of either table, and the
\* lexicographically first column of the union if there is none; where it
\* returns, the rows reported are those of B that are new by this column.
C22_AutoDetect ==
    (pc # "ready" /\ op \in {"compare_customers", "compare_csv_files"}
        /\ customer_id_arg = None /\ ~(IsEmpty(df1) /\ IsEmpty(df2))) =>
        LET expected == PreferredColumn(df1.cols \cup df2.cols)
        IN  /\ customer_id_column = Some(expected)
            /\ (pc = "returned" /\ expected \in df1.cols \cap df2.cols) =>
                  /\ Len(Result.rows) = Len(NewCustomerRows(df1, df2, expected))
                  /\ \A i \in 1..Len(Result.rows) :
                        Result.rows[i].new_data =
                            Some(Project(NewCustomerRows(df1, df2, expected)[i],
                                         Result.column_names))

\* the tables have the columns customer_id and id: the column used is id, which
\* is after customer_id in the order of the columns, and one row is reported
C22_Witness ==
    /\ pc = "returned"
    /\ op = "compare_customers"
    /\ customer_id_arg = None
    /\ df1.cols = {"customer_id", "id"}
    /\ df2.cols = {"id", "user_id"}
    /\ customer_id_column = Some("id")
    /\ Len(Result.rows) = 1

\* r is the DiffRow of a matched pair: its data are those of a row of table A
\* and of a row of table B, normalized, over the union of the columns
MatchedPair(r) ==
    LET cols == df1.cols \cup df2.cols
    IN  /\ r.old_data # None
        /\ r.new_data # None
        /\ \E j \in 1..NumRows(df1) : r.old_data = DataAt(df1, j, cols)
        /\ \E k \in 1..NumRows(df2) : r.new_data = DataAt(df2, k, cols)

\* the DiffRow r has the status modified and column c among its changedColumns
ModifiedIn(r, c) ==
    /\ r.status = "modified"
    /\ r.changed_columns # None
    /\ c \in ToSet(r.changed_columns[1])

\* C23: in every pair of rows compare matches, a column of only one table has
\* the value "" on the other side, and the pair is modified with that column
\* among changedColumns whenever the normalized value on the side that has the
\* column is not ""; without a shared column a matched pair is unchanged only
\* if all normalized cells of both rows are "".
C23_OneSidedColumns ==
    Compared =>
        \A i \in 1..Len(Result.rows) :
            LET r == Result.rows[i]
            IN  (r.old_data # None /\ r.new_data # None) =>
                    /\ MatchedPair(r)
                    /\ \A c \in df1.cols \ df2.cols :
                          /\ r.new_data[1][c] = EmptyStr
                          /\ r.old_data[1][c] # EmptyStr => ModifiedIn(r, c)
                    /\ \A c \in df2.cols \ df1.cols :
                          /\ r.old_data[1][c] = EmptyStr
                          /\ r.new_data[1][c] # EmptyStr => ModifiedIn(r, c)
                    /\ (df1.cols \cap df2.cols = {} /\ r.status = "unchanged") =>
                          \A c \in df1.cols \cup df2.cols :
                              r.old_data[1][c] = EmptyStr /\ r.new_data[1][c] = EmptyStr

\* the rows agree in the shared column id, and the pair is modified by the
\* column name that only table B has
C23_Witness ==
    /\ Compared
    /\ df1.cols = {"id"}
    /\ df2.cols = {"id", "name"}
    /\ key_columns = <<"id">>
    /\ Len(Result.rows) = 1
    /\ Result.rows[1].old_data # None
    /\ Result.rows[1].new_data # None
    /\ Result.rows[1].old_data[1]["id"] = Result.rows[1].new_data[1]["id"]
    /\ Result.rows[1].new_data[1]["name"] = <<"1">>
    /\ Result.rows[1].changed_columns = Some(<<"name">>)

====
